---- MODULE Spec2Model ----
(***************************************************************************)
(* Model of the date / ISO-week utilities (utils/date.ts), the month grid  *)
(* and week list builders (CalendarGrid.tsx, WeekPicker.tsx) and the       *)
(* calendar navigator (UnifiedCalendar.tsx) of obsidian-daily-reports.     *)
(*                                                                         *)
(* A JavaScript Date is an instant.  The model counts instants in whole    *)
(* hours since 1970-01-01T00:00Z (the code's 86400000 ms per day become    *)
(* HoursPerDay hours per day), and the host's timezone is a fixed whole    *)
(* number of hours east of UTC, held in the variable tz.  Local getters    *)
(* and setters (getFullYear, setDate, ...) read the instant through tz,    *)
(* the UTC ones (getUTCDay, Date.UTC, ...) do not.                         *)
(*                                                                         *)
(* Strings are sequences of one-character strings, so that formatting and  *)
(* parsing are computed character by character.                            *)
(***************************************************************************)
EXTENDS Integers, Sequences, FiniteSets, TLC

VARIABLES
    tz,               \* host offset from UTC, in hours (environment)
    today,            \* the instant returned by `new Date()` (ambient clock)
    arg,              \* input of the pure function under examination
    res,              \* its result
    currentDate,      \* prop currentDate?: string  (<<>> when absent)
    currentWeek,      \* prop currentWeek?: string  (<<>> when absent)
    availableDates,   \* prop availableDates, as the Set built from it
    availableWeeks,   \* prop availableWeeks, as the Set built from it
    isOpen,           \* useState(false)
    mode,             \* useState<CalendarMode>('calendar')
    viewDate,         \* useState(() => ...)
    yearPickerStart,  \* useState(viewDate.getFullYear() - 4)
    navigated,        \* sequence of the paths given to navigate(...)
    hook,             \* the data hook examined: "useDailyData" or "useWeeklyData"
    requested,        \* the hook's argument (date, or week) of the last render
    data,             \* useState<...Data | null>(null)
    loading,          \* useState(true)
    error,            \* useState<string | null>(null)
    requests,         \* the calls of fetchData() that are suspended at an await
    issued,           \* number of calls of fetchData() so far
    settled           \* history: the argument of the call that wrote the state last

envVars  == <<tz, today>>
calcVars == <<arg, res>>
propVars == <<currentDate, currentWeek, availableDates, availableWeeks>>
navVars  == <<isOpen, mode, viewDate, yearPickerStart, navigated>>
hookVars == <<hook, requested, data, loading, error, requests, issued, settled>>
vars     == <<tz, today, arg, res, currentDate, currentWeek, availableDates,
              availableWeeks, isOpen, mode, viewDate, yearPickerStart, navigated,
              hook, requested, data, loading, error, requests, issued, settled>>

----------------------------------------------------------------------------
(* Bounds of the model *)

FirstYear == 2003     \* first calendar year whose dates are examined
NumYears  == 22       \* number of calendar years examined
LastYear  == FirstYear + NumYears - 1
Years     == FirstYear .. LastYear

TzOffsets == {0 - 5, 0, 8}     \* UTC-5, UTC, UTC+8

----------------------------------------------------------------------------
(* The proleptic Gregorian calendar, as ECMAScript's Date implements it *)

HoursPerDay == 24
DaysPerWeek == 7

IsLeapYear(y) == (y % 4 = 0 /\ y % 100 # 0) \/ y % 400 = 0

DaysInMonth(y, m) ==
    IF m = 2 THEN (IF IsLeapYear(y) THEN 29 ELSE 28)
    ELSE IF m \in {4, 6, 9, 11} THEN 30 ELSE 31

\* day number (1970-01-01 = 0) of a civil date; m in 1..12, d any integer
DaysFromCivil(y, m, d) ==
    LET yy  == IF m <= 2 THEN y - 1 ELSE y
        era == yy \div 400
        yoe == yy - era * 400
        mp  == IF m > 2 THEN m - 3 ELSE m + 9
        doy == (153 * mp + 2) \div 5 + d - 1
        doe == yoe * 365 + yoe \div 4 - yoe \div 100 + doy
    IN  era * 146097 + doe - 719468

\* civil date [y, m (1..12), d] of a day number
CivilOfDayNumber(n) ==
    LET z   == n + 719468
        era == z \div 146097
        doe == z - era * 146097
        yoe == (doe - doe \div 1460 + doe \div 36524 - doe \div 146096) \div 365
        doy == doe - (365 * yoe + yoe \div 4 - yoe \div 100)
        mp  == (5 * doy + 2) \div 153
        d   == doy - (153 * mp + 2) \div 5 + 1
        m   == IF mp < 10 THEN mp + 3 ELSE mp - 9
    IN  [y |-> yoe + era * 400 + (IF m <= 2 THEN 1 ELSE 0), m |-> m, d |-> d]

\* the same, tabulated once over the years the model can touch
CivilTable ==
    [n \in DaysFromCivil(FirstYear - 2, 1, 1) .. DaysFromCivil(LastYear + 3, 1, 1) |->
        CivilOfDayNumber(n)]

CivilFromDays(n) == CivilTable[n]

\* ECMAScript MakeDay: month is 0-based and may overflow, day may overflow
MakeDay(y, m0, d) ==
    DaysFromCivil(y + (m0 \div 12), (m0 % 12) + 1, 1) + d - 1

\* 0 = Sunday .. 6 = Saturday
WeekDayOfDayNumber(n) == (n + 4) % DaysPerWeek

\* Date.UTC(year, monthIndex, day)
DateUTC(y, m0, d) == MakeDay(y, m0, d) * HoursPerDay

getUTCFullYear(t) == CivilFromDays(t \div HoursPerDay).y
getUTCMonth(t)    == CivilFromDays(t \div HoursPerDay).m - 1
getUTCDate(t)     == CivilFromDays(t \div HoursPerDay).d
getUTCDay(t)      == WeekDayOfDayNumber(t \div HoursPerDay)
setUTCDate(t, dd) ==
    MakeDay(getUTCFullYear(t), getUTCMonth(t), dd) * HoursPerDay + (t % HoursPerDay)

\* the local calendar fields of an instant on a host at offset off
LocalDayNumber(t, off) == (t + off) \div HoursPerDay
LocalHours(t, off)     == (t + off) % HoursPerDay
LocalYMD(t, off)       == CivilFromDays(LocalDayNumber(t, off))

\* new Date(year, monthIndex, day): local midnight
NewDateLocal(y, m0, d) == MakeDay(y, m0, d) * HoursPerDay - tz

getFullYear(t) == LocalYMD(t, tz).y
getMonth(t)    == LocalYMD(t, tz).m - 1
getDate(t)     == LocalYMD(t, tz).d
getDay(t)      == WeekDayOfDayNumber(LocalDayNumber(t, tz))

setDate(t, dd) ==
    MakeDay(getFullYear(t), getMonth(t), dd) * HoursPerDay + LocalHours(t, tz) - tz
setMonth(t, mm) ==
    MakeDay(getFullYear(t), mm, getDate(t)) * HoursPerDay + LocalHours(t, tz) - tz
setFullYear(t, yy) ==
    MakeDay(yy, getMonth(t), getDate(t)) * HoursPerDay + LocalHours(t, tz) - tz

----------------------------------------------------------------------------
(* Strings *)

DigitChars == <<"0", "1", "2", "3", "4", "5", "6", "7", "8", "9">>
IsDigit(c) == \E i \in 1..10 : DigitChars[i] = c
DigitValue(c) == (CHOOSE i \in 1..10 : DigitChars[i] = c) - 1

\* Number.prototype.toString() of a non-negative integer
RECURSIVE NumToString(_)
NumToString(n) ==
    IF n < 10 THEN <<DigitChars[n + 1]>>
    ELSE NumToString(n \div 10) \o <<DigitChars[(n % 10) + 1]>>

padStart2_NoPad(s) == s

\* String.prototype.padStart(2, "0")
padStart2(s) == IF Len(s) >= 2 THEN s ELSE IF Len(s) = 1 THEN <<"0">> \o s ELSE <<"0", "0">>

\* parseInt(s, 10) of a string of digits
RECURSIVE parseInt(_)
parseInt(s) ==
    IF Len(s) = 0 THEN 0
    ELSE parseInt(SubSeq(s, 1, Len(s) - 1)) * 10 + DigitValue(s[Len(s)])

AllDigits(s) == \A i \in 1..Len(s) : IsDigit(s[i])

----------------------------------------------------------------------------
(* utils/date.ts *)

getISOWeek_Floor(date) ==
    LET d0        == DateUTC(getFullYear(date), getMonth(date), getDate(date))
        dayNum    == IF getUTCDay(d0) = 0 THEN 7 ELSE getUTCDay(d0)
        d         == setUTCDate(d0, getUTCDate(d0) + 4 - dayNum)
        yearStart == DateUTC(getUTCFullYear(d), 0, 1)
        n         == (d - yearStart) \div HoursPerDay + 1
    IN  n \div 7

getISOWeek(date) ==
    LET d0        == DateUTC(getFullYear(date), getMonth(date), getDate(date))
        dayNum    == IF getUTCDay(d0) = 0 THEN 7 ELSE getUTCDay(d0)
        d         == setUTCDate(d0, getUTCDate(d0) + 4 - dayNum)
        yearStart == DateUTC(getUTCFullYear(d), 0, 1)
        n         == (d - yearStart) \div HoursPerDay + 1
    IN  (n + 6) \div 7       \* Math.ceil(n / 7)

getISOYear_Wednesday(date) ==
    LET d0     == DateUTC(getFullYear(date), getMonth(date), getDate(date))
        dayNum == IF getUTCDay(d0) = 0 THEN 7 ELSE getUTCDay(d0)
        d      == setUTCDate(d0, getUTCDate(d0) + 3 - dayNum)
    IN  getUTCFullYear(d)

getISOYear(date) ==
    LET d0     == DateUTC(getFullYear(date), getMonth(date), getDate(date))
        dayNum == IF getUTCDay(d0) = 0 THEN 7 ELSE getUTCDay(d0)
        d      == setUTCDate(d0, getUTCDate(d0) + 4 - dayNum)
    IN  getUTCFullYear(d)

getDateFromWeek(year, week) ==
    LET simple == DateUTC(year, 0, 1 + (week - 1) * 7)
        dow    == getUTCDay(simple)
    IN  IF dow <= 4
        THEN setUTCDate(simple, getUTCDate(simple) - getUTCDay(simple) + 1)
        ELSE setUTCDate(simple, getUTCDate(simple) + 8 - getUTCDay(simple))

formatDate(date) ==
    NumToString(getFullYear(date)) \o <<"-">>
      \o padStart2(NumToString(getMonth(date) + 1)) \o <<"-">>
      \o padStart2(NumToString(getDate(date)))

formatWeekString(year, week) ==
    NumToString(year) \o <<"-", "W">> \o padStart2(NumToString(week))

getWeeksInYear_Friday(year) ==
    LET p2     == NewDateLocal(year, 11, 31)
        isLeap == (year % 4 = 0 /\ year % 100 # 0) \/ year % 400 = 0
        day    == getDay(p2)
    IN  IF day = 5 \/ (isLeap /\ day = 3) THEN 53 ELSE 52

getWeeksInYear(year) ==
    LET p2     == NewDateLocal(year, 11, 31)
        isLeap == (year % 4 = 0 /\ year % 100 # 0) \/ year % 400 = 0
        day    == getDay(p2)
    IN  IF day = 4 \/ (isLeap /\ day = 3) THEN 53 ELSE 52

\* weekStr.match(/^(\d{4})-W(\d{2})$/)
MatchesWeekPattern(weekStr) ==
    /\ Len(weekStr) = 8
    /\ AllDigits(SubSeq(weekStr, 1, 4))
    /\ weekStr[5] = "-"
    /\ weekStr[6] = "W"
    /\ AllDigits(SubSeq(weekStr, 7, 8))

parseWeekString(weekStr) ==
    IF ~MatchesWeekPattern(weekStr)
    THEN [year |-> getFullYear(today), week |-> getISOWeek(today)]
    ELSE [year |-> parseInt(SubSeq(weekStr, 1, 4)),
          week |-> parseInt(SubSeq(weekStr, 7, 8))]

----------------------------------------------------------------------------
(* CalendarGrid.tsx: the month grid *)

LoopCap   == 100      \* while (... && count < 100)
DaysInRow == 7        \* for (let i = 0; i < 7; i++)

isoDayOfWeek_NoSundayFix(date) == getDay(date)

\* date.getDay() || 7
isoDayOfWeek(date) == IF getDay(date) = 0 THEN 7 ELSE getDay(date)

gridStartDate_SundayFirst(firstDayOfMonth) ==
    setDate(firstDayOfMonth, getDate(firstDayOfMonth) - getDay(firstDayOfMonth))

\* startDate.setDate(firstDayOfMonth.getDate() - (startDayOfWeek - 1))
gridStartDate(firstDayOfMonth) ==
    LET startDayOfWeek == isoDayOfWeek(firstDayOfMonth)
    IN  setDate(firstDayOfMonth, getDate(firstDayOfMonth) - (startDayOfWeek - 1))

\* endDate.setDate(lastDayOfMonth.getDate() + (7 - endDayOfWeek))
gridEndDate(lastDayOfMonth) ==
    LET endDayOfWeek == isoDayOfWeek(lastDayOfMonth)
    IN  setDate(lastDayOfMonth, getDate(lastDayOfMonth) + (7 - endDayOfWeek))

\* the object pushed for one day
dayItem(current, month) ==
    LET dateString == formatDate(current)
    IN  [date           |-> getDate(current),
         dateString     |-> dateString,
         isCurrentMonth |-> getMonth(current) = month,
         isAvailable    |-> dateString \in availableDates,
         isSelected     |-> dateString = currentDate]

\* the inner for loop: the items of one row and the advanced `current`
\* (each iteration's values are bound once, as elements of singleton sets)
RECURSIVE daysLoop(_, _, _, _)
daysLoop(current, month, i, daysInWeek) ==
    IF i < DaysInRow
    THEN CHOOSE out \in
            { daysLoop(next, month, i + 1, Append(daysInWeek, item)) :
                  next \in {setDate(current, getDate(current) + 1)},
                  item \in {dayItem(current, month)} } : TRUE
    ELSE [days |-> daysInWeek, current |-> current]

weekRow_CalendarYear(current, daysInWeek) ==
    CHOOSE row \in
        { [weekNumber      |-> weekNumber,
           weekYear        |-> weekYear,
           weekString      |-> formatWeekString(weekYear, weekNumber),
           isWeekAvailable |-> formatWeekString(weekYear, weekNumber) \in availableWeeks,
           isWeekSelected  |-> formatWeekString(weekYear, weekNumber) = currentWeek,
           days            |-> daysInWeek] :
              weekYear \in {getFullYear(current)},
              weekNumber \in {getISOWeek(current)} } : TRUE

\* the object pushed for one week
weekRow(current, daysInWeek) ==
    CHOOSE row \in
        { [weekNumber      |-> weekNumber,
           weekYear        |-> weekYear,
           weekString      |-> formatWeekString(weekYear, weekNumber),
           isWeekAvailable |-> formatWeekString(weekYear, weekNumber) \in availableWeeks,
           isWeekSelected  |-> formatWeekString(weekYear, weekNumber) = currentWeek,
           days            |-> daysInWeek] :
              weekYear \in {getISOYear(current)},
              weekNumber \in {getISOWeek(current)} } : TRUE

\* the while loop: rows built, and where and why the loop stopped
RECURSIVE weeksLoop(_, _, _, _, _)
weeksLoop(current, endDate, month, count, rows) ==
    IF current <= endDate /\ count < LoopCap
    THEN CHOOSE out \in
            { weeksLoop(inner.current, endDate, month, count + 1, Append(rows, row)) :
                  <<inner, row>> \in
                      { <<in, weekRow(current, in.days)>> :
                            in \in {daysLoop(current, month, 0, <<>>)} } } : TRUE
    ELSE [rows |-> rows, current |-> current, endDate |-> endDate, count |-> count]

buildCalendar(date) ==
    LET year            == getFullYear(date)
        month           == getMonth(date)
        firstDayOfMonth == NewDateLocal(year, month, 1)
        startDate       == gridStartDate(firstDayOfMonth)
        lastDayOfMonth  == NewDateLocal(year, month + 1, 0)
        endDate         == gridEndDate(lastDayOfMonth)
    IN  CHOOSE out \in { weeksLoop(from, to, month, 0, <<>>) :
                              from \in {startDate}, to \in {endDate} } : TRUE

calendarRows(date) == buildCalendar(date).rows

\* WeekPicker.tsx: the list of weeks offered for a year
weekList(year) ==
    [i \in 1..getWeeksInYear(year) |->
        [weekNumber  |-> i,
         weekString  |-> formatWeekString(year, i),
         isAvailable |-> formatWeekString(year, i) \in availableWeeks]]

----------------------------------------------------------------------------
(* Inputs of the pure functions *)

NoString == <<>>        \* an absent (undefined) optional string prop

\* local midnight of every calendar date of the examined years
LocalMidnights ==
    { NewDateLocal(y, m - 1, d) :
        <<y, m, d>> \in { t \in Years \X (1..12) \X (1..31) : t[3] <= DaysInMonth(t[1], t[2]) } }

\* strings that fail /^(\d{4})-W(\d{2})$/
MalformedWeekStrings ==
    { <<"l", "a", "t", "e", "s", "t">>,
      <<"2", "0", "0", "8", "-", "W", "5">>,
      <<"2", "0", "0", "8", "-", "w", "0", "5">> }

\* values of the navigator's variables while a pure function is examined
\* null
Null == [null |-> TRUE]

\* values of the data hook's variables while something else is examined
HookIdle ==
    /\ hook = "useDailyData"
    /\ requested = ""
    /\ data = Null
    /\ loading = TRUE
    /\ error = Null
    /\ requests = {}
    /\ issued = 0
    /\ settled = ""

Idle ==
    /\ HookIdle
    /\ currentDate = NoString
    /\ currentWeek = NoString
    /\ availableDates = {}
    /\ availableWeeks = {}
    /\ isOpen = FALSE
    /\ mode = "calendar"
    /\ viewDate = 0
    /\ yearPickerStart = 0
    /\ navigated = <<>>

----------------------------------------------------------------------------
(* SpecIso: getISOYear / getISOWeek of a date, and the way back *)

InitIso ==
    /\ tz \in TzOffsets
    /\ today = 0
    /\ arg \in { [date |-> t] : t \in LocalMidnights }
    /\ res = [op |-> "none"]
    /\ Idle

WeekOfDate ==
    /\ res.op = "none"
    /\ LET y == getISOYear(arg.date)
           w == getISOWeek(arg.date)
       IN  res' = [op          |-> "weekOfDate",
                   isoYear     |-> y,
                   isoWeek     |-> w,
                   weeksInYear |-> getWeeksInYear(y),
                   monday      |-> getDateFromWeek(y, w)]
    /\ UNCHANGED <<hookVars, tz, today, arg, currentDate, currentWeek, availableDates,
                   availableWeeks, isOpen, mode, viewDate, yearPickerStart, navigated>>

NextIso == WeekOfDate
SpecIso == InitIso /\ [][NextIso]_vars

----------------------------------------------------------------------------
(* SpecWeek: getDateFromWeek on the weeks that getWeeksInYear admits *)

InitWeek ==
    /\ tz \in TzOffsets
    /\ today = 0
    /\ arg \in { a \in [year : Years, week : 1..53] : a.week <= getWeeksInYear(a.year) }
    /\ res = [op |-> "none"]
    /\ Idle

DateOfWeek ==
    /\ res.op = "none"
    /\ LET m == getDateFromWeek(arg.year, arg.week)
       IN  res' = [op      |-> "dateOfWeek",
                   monday  |-> m,
                   day     |-> getDay(m),
                   isoYear |-> getISOYear(m),
                   isoWeek |-> getISOWeek(m)]
    /\ UNCHANGED <<hookVars, tz, today, arg, currentDate, currentWeek, availableDates,
                   availableWeeks, isOpen, mode, viewDate, yearPickerStart, navigated>>

NextWeek == DateOfWeek
SpecWeek == InitWeek /\ [][NextWeek]_vars

----------------------------------------------------------------------------
(* SpecParse: parseWeekString under every value of the ambient clock *)

WeekStringsOfYears ==
    { formatWeekString(y, w) : y \in Years, w \in 1..53 }

InitParse ==
    /\ tz \in TzOffsets
    /\ \/ /\ today \in LocalMidnights
          /\ arg \in { [weekStr |-> s] : s \in MalformedWeekStrings }
       \/ /\ today = 0
          /\ arg \in { [weekStr |-> s] : s \in WeekStringsOfYears }
    /\ res = [op |-> "none"]
    /\ Idle

ParseWeek ==
    /\ res.op = "none"
    /\ LET p == parseWeekString(arg.weekStr)
       IN  res' = [op |-> "parseWeekString", year |-> p.year, week |-> p.week,
                   matched |-> MatchesWeekPattern(arg.weekStr)]
    /\ UNCHANGED <<hookVars, tz, today, arg, currentDate, currentWeek, availableDates,
                   availableWeeks, isOpen, mode, viewDate, yearPickerStart, navigated>>

NextParse == ParseWeek
SpecParse == InitParse /\ [][NextParse]_vars

----------------------------------------------------------------------------
(* SpecRound: formatWeekString, parseWeekString and formatWeekString again *)

\* the examined years and the first and the last year of four digits
FourDigitYears == Years \cup {1000, 9999}

InitRound ==
    /\ tz \in TzOffsets
    /\ today \in {NewDateLocal(FirstYear, 5, 15), NewDateLocal(LastYear, 5, 15)}
    /\ arg \in { a \in [year : FourDigitYears, week : 1..53] :
                    a.week <= getWeeksInYear(a.year) }
    /\ res = [op |-> "none"]
    /\ Idle

RoundTrip ==
    /\ res.op = "none"
    /\ LET s == formatWeekString(arg.year, arg.week)
           p == parseWeekString(s)
       IN  res' = [op      |-> "roundTrip",
                   weekStr |-> s,
                   year    |-> p.year,
                   week    |-> p.week,
                   again   |-> formatWeekString(p.year, p.week)]
    /\ UNCHANGED <<hookVars, tz, today, arg, currentDate, currentWeek, availableDates,
                   availableWeeks, isOpen, mode, viewDate, yearPickerStart, navigated>>

NextRound == RoundTrip
SpecRound == InitRound /\ [][NextRound]_vars

----------------------------------------------------------------------------
(* SpecYear: getWeeksInYear of a year *)

InitYear ==
    /\ tz \in TzOffsets
    /\ today = 0
    /\ arg \in [year : FourDigitYears]
    /\ res = [op |-> "none"]
    /\ Idle

WeeksOfYear ==
    /\ res.op = "none"
    /\ res' = [op |-> "getWeeksInYear", weeks |-> getWeeksInYear(arg.year)]
    /\ UNCHANGED <<hookVars, tz, today, arg, currentDate, currentWeek, availableDates,
                   availableWeeks, isOpen, mode, viewDate, yearPickerStart, navigated>>

NextYear == WeeksOfYear
SpecYear == InitYear /\ [][NextYear]_vars

----------------------------------------------------------------------------
(* UnifiedCalendar.tsx: the navigator *)

NavFirstYear     == 2008   \* paging and selection stay within these years
NavNumYears      == 2
NavYears         == NavFirstYear .. (NavFirstYear + NavNumYears - 1)
MaxYearPages     == 1      \* year-picker pages turned away from the nav years
MaxNavigations   == 1      \* navigate() calls recorded
YearPickerOffset == 4      \* viewDate.getFullYear() - 4
YearPageSize     == 12     \* Array.from({ length: 12 }), prev -/+ 12

YearPickerStarts ==
    (NavFirstYear - YearPickerOffset - YearPageSize * MaxYearPages)
        .. (NavFirstYear + NavNumYears - 1 - YearPickerOffset + YearPageSize * MaxYearPages)

\* new Date("YYYY-MM-DD"): a date-only ISO string is read as UTC midnight
newDateFromString(s) ==
    DateUTC(parseInt(SubSeq(s, 1, 4)), parseInt(SubSeq(s, 6, 7)) - 1,
            parseInt(SubSeq(s, 9, 10)))

\* the useState initialiser of viewDate
initialViewDate ==
    IF currentDate # NoString THEN newDateFromString(currentDate)
    ELSE IF currentWeek # NoString
         THEN getDateFromWeek(parseWeekString(currentWeek).year,
                              parseWeekString(currentWeek).week)
         ELSE today

\* the useState initialiser of yearPickerStart
initialYearPickerStart(date) == getFullYear(date) - YearPickerOffset

\* the props examined: no selection, a day, a week
CurrentDates ==
    { NoString, <<"2", "0", "0", "9", "-", "0", "1", "-", "0", "1">> }

CurrentWeeks ==
    { NoString, <<"2", "0", "0", "9", "-", "W", "0", "1">> }

\* the clock: 2009-01-01T00:00Z, which is still 2008-12-31 on a host at UTC-5
Todays == { DateUTC(2009, 0, 1) }

AvailableDateLists ==
    { { <<"2", "0", "0", "8", "-", "1", "2", "-", "2", "9">> } }

AvailableWeekLists ==
    { { <<"2", "0", "0", "9", "-", "W", "0", "1">> } }

Init ==
    /\ HookIdle
    /\ tz \in TzOffsets
    /\ today \in Todays
    /\ arg = [none |-> TRUE]
    /\ res = [op |-> "none"]
    /\ currentDate \in CurrentDates
    /\ currentWeek \in CurrentWeeks
    /\ currentDate = NoString \/ currentWeek = NoString
    /\ availableDates \in AvailableDateLists
    /\ availableWeeks \in AvailableWeekLists
    /\ isOpen = FALSE
    /\ mode = "calendar"
    /\ viewDate = initialViewDate
    /\ yearPickerStart = initialYearPickerStart(initialViewDate)
    /\ navigated = <<>>

\* a handler changes neither the props, nor the clock, nor the host
Frame == UNCHANGED <<hookVars, tz, today, currentDate, currentWeek,
                     availableDates, availableWeeks>>

\* nothing is written down about the step taken
Quiet == UNCHANGED <<arg, res>>

\* onClick={() => setIsOpen(!isOpen)}
ToggleOpen ==
    /\ isOpen' = ~isOpen
    /\ UNCHANGED <<mode, viewDate, yearPickerStart, navigated>>
    /\ Frame

\* handleClickOutside, registered while open
ClickOutside ==
    /\ isOpen
    /\ isOpen' = FALSE
    /\ UNCHANGED <<mode, viewDate, yearPickerStart, navigated>>
    /\ Frame

nextDate_NoDayReset(date) ==
    IF mode = "calendar"
    THEN setMonth(date, getMonth(date) + 1)
    ELSE setFullYear(date, getFullYear(date) + 1)

prevDate(date) ==
    IF mode = "calendar"
    THEN setMonth(setDate(date, 1), getMonth(setDate(date, 1)) - 1)
    ELSE setFullYear(date, getFullYear(date) - 1)

nextDate(date) ==
    IF mode = "calendar"
    THEN setMonth(setDate(date, 1), getMonth(setDate(date, 1)) + 1)
    ELSE setFullYear(date, getFullYear(date) + 1)

handlePrev_PageOfTen ==
    /\ isOpen
    /\ IF mode = "year-picker"
       THEN /\ yearPickerStart - 10 \in YearPickerStarts
            /\ yearPickerStart' = yearPickerStart - 10
            /\ UNCHANGED viewDate
       ELSE /\ getFullYear(prevDate(viewDate)) \in NavYears
            /\ viewDate' = prevDate(viewDate)
            /\ UNCHANGED yearPickerStart
    /\ UNCHANGED <<isOpen, mode, navigated>>
    /\ Frame

handlePrev ==
    /\ isOpen
    /\ IF mode = "year-picker"
       THEN /\ yearPickerStart - YearPageSize \in YearPickerStarts
            /\ yearPickerStart' = yearPickerStart - YearPageSize
            /\ UNCHANGED viewDate
       ELSE /\ getFullYear(prevDate(viewDate)) \in NavYears
            /\ viewDate' = prevDate(viewDate)
            /\ UNCHANGED yearPickerStart
    /\ UNCHANGED <<isOpen, mode, navigated>>
    /\ Frame

handleNext ==
    /\ isOpen
    /\ IF mode = "year-picker"
       THEN /\ yearPickerStart + YearPageSize \in YearPickerStarts
            /\ yearPickerStart' = yearPickerStart + YearPageSize
            /\ UNCHANGED viewDate
       ELSE /\ getFullYear(nextDate(viewDate)) \in NavYears
            /\ viewDate' = nextDate(viewDate)
            /\ UNCHANGED yearPickerStart
    /\ UNCHANGED <<isOpen, mode, navigated>>
    /\ Frame

ClickYearLabel_NoWayBack ==
    /\ isOpen
    /\ mode' = "year-picker"
    /\ UNCHANGED <<isOpen, viewDate, yearPickerStart, navigated>>
    /\ Frame

\* CalendarHeader: the year button
ClickYearLabel ==
    /\ isOpen
    /\ mode' = IF mode = "year-picker" THEN "calendar" ELSE "year-picker"
    /\ UNCHANGED <<isOpen, viewDate, yearPickerStart, navigated>>
    /\ Frame

ClickMonthLabel_BackToWeeks ==
    /\ isOpen
    /\ mode # "year-picker"
    /\ mode' = IF mode = "month-picker" THEN "week-picker" ELSE "month-picker"
    /\ UNCHANGED <<isOpen, viewDate, yearPickerStart, navigated>>
    /\ Frame

\* CalendarHeader: the month button, not rendered in the year picker
ClickMonthLabel ==
    /\ isOpen
    /\ mode # "year-picker"
    /\ mode' = IF mode = "month-picker" THEN "calendar" ELSE "month-picker"
    /\ UNCHANGED <<isOpen, viewDate, yearPickerStart, navigated>>
    /\ Frame

WeekHeaderClick_Misspelt ==
    /\ isOpen
    /\ mode = "calendar"
    /\ mode' = "week"
    /\ UNCHANGED <<isOpen, viewDate, yearPickerStart, navigated>>
    /\ Frame

\* onWeekHeaderClick={() => setMode('week-picker')}
WeekHeaderClick ==
    /\ isOpen
    /\ mode = "calendar"
    /\ mode' = "week-picker"
    /\ UNCHANGED <<isOpen, viewDate, yearPickerStart, navigated>>
    /\ Frame

handleYearSelect_ToMonthView(year) ==
    /\ viewDate' = setFullYear(viewDate, year)
    /\ mode' = "calendar"
    /\ UNCHANGED <<isOpen, yearPickerStart, navigated>>
    /\ Frame

handleYearSelect(year) ==
    /\ viewDate' = setFullYear(viewDate, year)
    /\ mode' = "month-picker"
    /\ UNCHANGED <<isOpen, yearPickerStart, navigated>>
    /\ Frame

\* YearPicker: the button of year startYear + i
SelectYearAt(i) ==
    /\ isOpen
    /\ mode = "year-picker"
    /\ yearPickerStart + i \in NavYears
    /\ handleYearSelect(yearPickerStart + i)

\* YearPicker: one button per year of the page
SelectYear == \E i \in 0..(YearPageSize - 1) : SelectYearAt(i)

handleMonthSelect_NoDayReset(monthIndex) ==
    /\ viewDate' = setMonth(viewDate, monthIndex)
    /\ mode' = "calendar"
    /\ UNCHANGED <<isOpen, yearPickerStart, navigated>>
    /\ Frame

handleMonthSelect(monthIndex) ==
    /\ viewDate' = setMonth(setDate(viewDate, 1), monthIndex)
    /\ mode' = "calendar"
    /\ UNCHANGED <<isOpen, yearPickerStart, navigated>>
    /\ Frame

\* MonthPicker: the button of month index i
SelectMonthAt(i) ==
    /\ isOpen
    /\ mode = "month-picker"
    /\ handleMonthSelect(i)

\* MonthPicker: one button per month index
SelectMonth == \E i \in 0..11 : SelectMonthAt(i)

handleDateSelect_StaysOpen(dateString) ==
    /\ Len(navigated) < MaxNavigations
    /\ navigated' = Append(navigated, [route |-> "daily", param |-> dateString])
    /\ UNCHANGED <<isOpen, mode, viewDate, yearPickerStart>>
    /\ Frame

handleDateSelect(dateString) ==
    /\ Len(navigated) < MaxNavigations
    /\ isOpen' = FALSE
    /\ navigated' = Append(navigated, [route |-> "daily", param |-> dateString])
    /\ UNCHANGED <<mode, viewDate, yearPickerStart>>
    /\ Frame

handleWeekSelect(weekString) ==
    /\ Len(navigated) < MaxNavigations
    /\ isOpen' = FALSE
    /\ navigated' = Append(navigated, [route |-> "weekly", param |-> weekString])
    /\ UNCHANGED <<mode, viewDate, yearPickerStart>>
    /\ Frame

ClickDayAt_NoGuard(day) ==
    /\ isOpen
    /\ mode = "calendar"
    /\ handleDateSelect(day.dateString)

\* CalendarGrid: the button of one day;
\* onClick={() => day.isAvailable && onDateSelect(day.dateString)}, disabled={!day.isAvailable}
ClickDayAt(day) ==
    /\ isOpen
    /\ mode = "calendar"
    /\ IF day.isAvailable
       THEN handleDateSelect(day.dateString)
       ELSE UNCHANGED navVars /\ Frame

\* CalendarGrid: a day button
ClickDay ==
    /\ isOpen
    /\ mode = "calendar"
    /\ \E rows \in {calendarRows(viewDate)} :
       \E r \in 1..Len(rows), c \in 1..DaysInRow : ClickDayAt(rows[r].days[c])

ClickWeekNumberAt_NoGuard(row) ==
    /\ isOpen
    /\ mode = "calendar"
    /\ handleWeekSelect(row.weekString)

\* CalendarGrid: the week-number button of one row;
\* onClick={() => row.isWeekAvailable && onWeekSelect(row.weekString)}
ClickWeekNumberAt(row) ==
    /\ isOpen
    /\ mode = "calendar"
    /\ IF row.isWeekAvailable
       THEN handleWeekSelect(row.weekString)
       ELSE UNCHANGED navVars /\ Frame

\* CalendarGrid: a week-number button
ClickWeekNumber ==
    /\ isOpen
    /\ mode = "calendar"
    /\ \E rows \in {calendarRows(viewDate)} :
       \E r \in 1..Len(rows) : ClickWeekNumberAt(rows[r])

jumpTarget_KeepDay(weekNumber) ==
    getDateFromWeek(getFullYear(viewDate), weekNumber)

\* the date jumpToWeekMonth gives to setViewDate
jumpTarget(weekNumber) ==
    LET year       == getFullYear(viewDate)
        targetDate == getDateFromWeek(year, weekNumber)
    IN  setDate(targetDate, 1)

jumpToWeekMonth(weekNumber) ==
    /\ viewDate' = jumpTarget(weekNumber)
    /\ mode' = "calendar"
    /\ UNCHANGED <<isOpen, yearPickerStart, navigated>>

\* WeekPicker: the button of one week; onClick={() => onWeekClick(w.weekNumber)}
SelectWeekAt(w) ==
    /\ isOpen
    /\ mode = "week-picker"
    /\ jumpToWeekMonth(w.weekNumber)
    /\ Frame

\* WeekPicker: one button per week of the list
SelectWeek ==
    /\ isOpen
    /\ mode = "week-picker"
    /\ \E list \in {weekList(getFullYear(viewDate))} :
       \E i \in 1..Len(list) : SelectWeekAt(list[i])

handleJumpToToday_KeepPage ==
    /\ isOpen
    /\ viewDate' = today
    /\ mode' = "calendar"
    /\ UNCHANGED <<isOpen, yearPickerStart, navigated>>
    /\ Frame

handleJumpToToday ==
    /\ isOpen
    /\ viewDate' = today
    /\ mode' = "calendar"
    /\ yearPickerStart' = getFullYear(today) - YearPickerOffset
    /\ UNCHANGED <<isOpen, navigated>>
    /\ Frame

Next ==
    \/ ToggleOpen /\ Quiet
    \/ ClickOutside /\ Quiet
    \/ handlePrev /\ Quiet
    \/ handleNext /\ Quiet
    \/ ClickYearLabel /\ Quiet
    \/ ClickMonthLabel /\ Quiet
    \/ WeekHeaderClick /\ Quiet
    \/ SelectYear /\ Quiet
    \/ SelectMonth /\ Quiet
    \/ ClickDay /\ Quiet
    \/ ClickWeekNumber /\ Quiet
    \/ SelectWeek /\ Quiet
    \/ handleJumpToToday /\ Quiet

Spec == Init /\ [][Next]_vars

----------------------------------------------------------------------------
(* SpecMount: construction of the navigator from its props *)

DateStringsOfYears == { formatDate(t) : t \in LocalMidnights }

InitMount ==
    /\ HookIdle
    /\ tz \in TzOffsets
    /\ today \in Todays
    /\ arg = [none |-> TRUE]
    /\ res = [op |-> "none"]
    /\ \/ /\ currentDate \in DateStringsOfYears
          /\ currentWeek = NoString
       \/ /\ currentDate = NoString
          /\ currentWeek \in {NoString} \cup WeekStringsOfYears \cup MalformedWeekStrings
       \/ /\ currentDate \in CurrentDates \ {NoString}
          /\ currentWeek \in CurrentWeeks \ {NoString}
    /\ availableDates \in AvailableDateLists
    /\ availableWeeks \in AvailableWeekLists
    /\ isOpen = FALSE
    /\ mode = "calendar"
    /\ viewDate = 0
    /\ yearPickerStart = 0
    /\ navigated = <<>>

\* the first render: the useState initialisers run
Mount ==
    /\ res.op = "none"
    /\ res' = [op |-> "mounted"]
    /\ isOpen' = FALSE
    /\ mode' = "calendar"
    /\ viewDate' = initialViewDate
    /\ yearPickerStart' = initialYearPickerStart(initialViewDate)
    /\ UNCHANGED navigated
    /\ UNCHANGED <<hookVars, tz, today, arg, currentDate, currentWeek, availableDates, availableWeeks>>

NextMount == Mount
SpecMount == InitMount /\ [][NextMount]_vars

----------------------------------------------------------------------------
(* SpecJump: Select week, from the week picker of every examined year *)

\* view dates in the week picker: local midnight of 1 January, and 00:00Z of
\* 1 December (the time of day a previous Select week leaves behind)
JumpViewDates ==
    { NewDateLocal(y, 0, 1) : y \in Years } \cup { DateUTC(y, 11, 1) : y \in Years }

InitJump ==
    /\ HookIdle
    /\ tz \in TzOffsets
    /\ today \in Todays
    /\ currentDate = NoString
    /\ currentWeek = NoString
    /\ availableDates \in AvailableDateLists
    /\ availableWeeks \in AvailableWeekLists
    /\ isOpen = TRUE
    /\ mode = "week-picker"
    /\ viewDate \in JumpViewDates
    /\ yearPickerStart = initialYearPickerStart(viewDate)
    /\ navigated = <<>>
    /\ arg = [viewDate |-> viewDate, yearPickerStart |-> yearPickerStart]
    /\ res = [op |-> "none"]

\* SelectWeek, with the call it makes written down in res
PickWeek ==
    /\ isOpen
    /\ mode = "week-picker"
    /\ \E list \in {weekList(getFullYear(viewDate))} :
       \E i \in 1..Len(list) :
          /\ jumpToWeekMonth(list[i].weekNumber)
          /\ res' = [op |-> "jumpToWeekMonth", year |-> getFullYear(viewDate),
                     weekNumber |-> list[i].weekNumber]
    /\ UNCHANGED <<hookVars, tz, today, arg, currentDate, currentWeek, availableDates, availableWeeks>>

NextJump == PickWeek
SpecJump == InitJump /\ [][NextJump]_vars

----------------------------------------------------------------------------
(* SpecStep: one user action on the open navigator, taken in any mode and on
   any view date, with the action and the state it was taken in written down *)

\* view dates: day 1 at local midnight, the last day of the month at 19:00 local
\* time, and 00:00Z of day 1 (the time of day `new Date("YYYY-MM-DD")` leaves)
StepViewDates ==
    { NewDateLocal(y, m, 1) : y \in NavYears, m \in 0..11 }
        \cup { NewDateLocal(y, m, DaysInMonth(y, m + 1)) + 19 : y \in NavYears, m \in 0..11 }
        \cup { DateUTC(y, m, 1) : y \in NavYears, m \in 0..11 }

\* the state of the navigator
Snapshot ==
    [isOpen |-> isOpen, mode |-> mode, viewDate |-> viewDate,
     yearPickerStart |-> yearPickerStart, navigated |-> navigated]

\* one action is taken
Ready == res.op = "none"

\* the handler called, its argument, and the state it was called in
Took(name, param) ==
    /\ res' = [op |-> name, param |-> param]
    /\ arg' = Snapshot

InitStep ==
    /\ HookIdle
    /\ tz \in TzOffsets
    /\ today \in Todays
    /\ currentDate = NoString
    /\ currentWeek = NoString
    /\ availableDates \in AvailableDateLists
    /\ availableWeeks \in AvailableWeekLists
    /\ isOpen = TRUE
    /\ mode \in {"calendar", "week-picker", "month-picker", "year-picker"}
    /\ viewDate \in StepViewDates
    /\ yearPickerStart = initialYearPickerStart(viewDate)
    /\ navigated = <<>>
    /\ arg = [none |-> TRUE]
    /\ res = [op |-> "none"]

StepYear ==
    /\ Ready
    /\ \E i \in 0..(YearPageSize - 1) :
          SelectYearAt(i) /\ Took("handleYearSelect", yearPickerStart + i)

StepMonth ==
    /\ Ready
    /\ \E i \in 0..11 : SelectMonthAt(i) /\ Took("handleMonthSelect", i)

StepDay ==
    /\ Ready
    /\ mode = "calendar"
    /\ \E rows \in {calendarRows(viewDate)} :
       \E r \in 1..Len(rows), c \in 1..DaysInRow :
          ClickDayAt(rows[r].days[c]) /\ Took("ClickDay", rows[r].days[c])

StepWeekNumber ==
    /\ Ready
    /\ mode = "calendar"
    /\ \E rows \in {calendarRows(viewDate)} :
       \E r \in 1..Len(rows) :
          ClickWeekNumberAt(rows[r]) /\ Took("ClickWeekNumber", rows[r])

StepWeek ==
    /\ Ready
    /\ mode = "week-picker"
    /\ \E list \in {weekList(getFullYear(viewDate))} :
       \E i \in 1..Len(list) : SelectWeekAt(list[i]) /\ Took("SelectWeek", list[i])

NextStep ==
    \/ Ready /\ ToggleOpen /\ Took("ToggleOpen", 0)
    \/ Ready /\ ClickOutside /\ Took("ClickOutside", 0)
    \/ Ready /\ handlePrev /\ Took("handlePrev", 0)
    \/ Ready /\ handleNext /\ Took("handleNext", 0)
    \/ Ready /\ ClickYearLabel /\ Took("ClickYearLabel", 0)
    \/ Ready /\ ClickMonthLabel /\ Took("ClickMonthLabel", 0)
    \/ Ready /\ WeekHeaderClick /\ Took("WeekHeaderClick", 0)
    \/ StepYear
    \/ StepMonth
    \/ StepDay
    \/ StepWeekNumber
    \/ StepWeek
    \/ Ready /\ handleJumpToToday /\ Took("handleJumpToToday", 0)

SpecStep == InitStep /\ [][NextStep]_vars

----------------------------------------------------------------------------
(* SpecMonths: Prev and Next pressed repeatedly in the month view *)

MaxSteps == 3       \* presses of Prev/Next followed

InitMonths ==
    /\ HookIdle
    /\ tz \in TzOffsets
    /\ today \in Todays
    /\ currentDate = NoString
    /\ currentWeek = NoString
    /\ availableDates \in AvailableDateLists
    /\ availableWeeks \in AvailableWeekLists
    /\ isOpen = TRUE
    /\ mode = "calendar"
    /\ viewDate \in StepViewDates
    /\ yearPickerStart = initialYearPickerStart(viewDate)
    /\ navigated = <<>>
    /\ arg = [viewDate |-> viewDate, yearPickerStart |-> yearPickerStart]
    /\ res = [op |-> "none", steps |-> <<>>]

PressPrev ==
    /\ Len(res.steps) < MaxSteps
    /\ handlePrev
    /\ res' = [op |-> "pressed", steps |-> Append(res.steps, "handlePrev")]
    /\ UNCHANGED arg

PressNext ==
    /\ Len(res.steps) < MaxSteps
    /\ handleNext
    /\ res' = [op |-> "pressed", steps |-> Append(res.steps, "handleNext")]
    /\ UNCHANGED arg

NextMonths == PressPrev \/ PressNext
SpecMonths == InitMonths /\ [][NextMonths]_vars

----------------------------------------------------------------------------
(* SpecWorkflow: a year chosen in the year picker, then a month *)

InitWorkflow ==
    /\ HookIdle
    /\ tz \in TzOffsets
    /\ today \in Todays
    /\ currentDate = NoString
    /\ currentWeek = NoString
    /\ availableDates \in AvailableDateLists
    /\ availableWeeks \in AvailableWeekLists
    /\ isOpen = TRUE
    /\ mode = "year-picker"
    /\ viewDate \in StepViewDates
    /\ yearPickerStart = initialYearPickerStart(viewDate)
    /\ navigated = <<>>
    /\ arg = [viewDate |-> viewDate, yearPickerStart |-> yearPickerStart]
    /\ res = [op |-> "none"]

ChooseYear ==
    /\ res.op = "none"
    /\ \E i \in 0..(YearPageSize - 1) :
          /\ SelectYearAt(i)
          /\ res' = [op |-> "handleYearSelect", year |-> yearPickerStart + i]
    /\ UNCHANGED arg

ChooseMonth ==
    /\ res.op = "handleYearSelect"
    /\ \E i \in 0..11 :
          /\ SelectMonthAt(i)
          /\ res' = [op |-> "handleMonthSelect", year |-> res.year, monthIndex |-> i]
    /\ UNCHANGED arg

NextWorkflow == ChooseYear \/ ChooseMonth
SpecWorkflow == InitWorkflow /\ [][NextWorkflow]_vars

----------------------------------------------------------------------------
(* hooks/useData.ts: useDailyData and useWeeklyData *)

MaxRequests == 3      \* calls of fetchData() examined in one run

Hooks == {"useDailyData", "useWeeklyData"}

\* the reports the server may hold
ReportKeys(h) ==
    IF h = "useDailyData" THEN {"2009-01-01", "2009-01-02"}
                          ELSE {"2009-W01", "2009-W02"}

\* the arguments the pages give: the route parameter, or the alias
HookArgs(h) == ReportKeys(h) \cup {"latest"}

\* the JSON document of a report
Report(h, key) ==
    IF h = "useDailyData" THEN [date |-> key] ELSE [iso_week |-> key]

\* fetchData() up to its first await: setLoading(true), then a fetch is pending
Suspended(id, value) ==
    [id       |-> id,
     arg      |-> value,
     awaiting |-> IF value = "latest" THEN "index" ELSE "report",
     target   |-> value]

InitFetch ==
    /\ tz = 0
    /\ today = 0
    /\ arg = [none |-> TRUE]
    /\ res = [op |-> "none"]
    /\ currentDate = NoString
    /\ currentWeek = NoString
    /\ availableDates = {}
    /\ availableWeeks = {}
    /\ isOpen = FALSE
    /\ mode = "calendar"
    /\ viewDate = 0
    /\ yearPickerStart = 0
    /\ navigated = <<>>
    /\ hook \in Hooks
    /\ requested \in HookArgs(hook)
    /\ data = Null
    /\ loading = TRUE
    /\ error = Null
    /\ requests = {Suspended(1, requested)}
    /\ issued = 1
    /\ settled = ""

HookFrame ==
    UNCHANGED <<tz, today, arg, res, currentDate, currentWeek, availableDates,
                availableWeeks, isOpen, mode, viewDate, yearPickerStart, navigated, hook>>

\* a render with another argument: the effect of [date] runs again
ChangeDate ==
    /\ issued < MaxRequests
    /\ \E value \in HookArgs(hook) \ {requested} :
          /\ requested' = value
          /\ IF value # ""
             THEN /\ loading' = TRUE
                  /\ requests' = requests \cup {Suspended(issued + 1, value)}
                  /\ issued' = issued + 1
             ELSE UNCHANGED <<loading, requests, issued>>
    /\ UNCHANGED <<data, error, settled>>
    /\ HookFrame

\* catch (err) { setError(...); setData(null) } finally { setLoading(false) }
Fails(r, message) ==
    /\ error' = [message |-> message]
    /\ data' = Null
    /\ loading' = FALSE
    /\ settled' = r.arg
    /\ requests' = requests \ {r}
    /\ UNCHANGED <<requested, issued>>
    /\ HookFrame

\* setData(jsonData); setError(null); finally { setLoading(false) }
Succeeds(r) ==
    /\ data' = Report(hook, r.target)
    /\ error' = Null
    /\ loading' = FALSE
    /\ settled' = r.arg
    /\ requests' = requests \ {r}
    /\ UNCHANGED <<requested, issued>>
    /\ HookFrame

\* the fetch of /data/index.json of a call for "latest" comes back
IndexResponds ==
    \E r \in requests :
        /\ r.awaiting = "index"
        /\ \/ Fails(r, "Failed to fetch")
           \/ Fails(r, "Could not fetch index for latest report")
           \/ Fails(r, IF hook = "useDailyData" THEN "No daily reports available"
                                                ELSE "No weekly reports available")
           \/ \E key \in ReportKeys(hook) :
                 /\ requests' = (requests \ {r})
                                  \cup {[r EXCEPT !.awaiting = "report", !.target = key]}
                 /\ UNCHANGED <<requested, data, loading, error, issued, settled>>
                 /\ HookFrame

\* the fetch of the report comes back
ReportResponds ==
    \E r \in requests :
        /\ r.awaiting = "report"
        /\ \/ Fails(r, "Failed to fetch")
           \/ Fails(r, "Report not found")
           \/ Succeeds(r)

NextFetch == ChangeDate \/ IndexResponds \/ ReportResponds
SpecFetch == InitFetch /\ [][NextFetch]_vars

----------------------------------------------------------------------------
(* Properties of the ISO week calculus *)

\* day number of the Monday on or before local day number n
MondayOnOrBefore(n) == n - ((WeekDayOfDayNumber(n) + 6) % DaysPerWeek)

\* C1: for every date d, getDateFromWeek(getISOYear(d), getISOWeek(d)) is the
\* Monday of d's own Monday-to-Sunday week (d itself if d is a Monday, otherwise
\* the closest earlier Monday), also for Jan 1-3 and Dec 29-31.
C1_MondayOfOwnWeek ==
    res.op = "weekOfDate" =>
        LocalDayNumber(res.monday, tz) = MondayOnOrBefore(LocalDayNumber(arg.date, tz))

\* C2: for every year y and week w with 1 <= w <= getWeeksInYear(y), the date
\* m = getDateFromWeek(y, w) is a Monday with getISOYear(m) = y and getISOWeek(m) = w.
C2_DateFromWeekInverts ==
    res.op = "dateOfWeek" =>
        /\ res.day = 1
        /\ res.isoYear = arg.year
        /\ res.isoWeek = arg.week

\* C3: for every date d, 1 <= getISOWeek(d) <= getWeeksInYear(getISOYear(d)).
C3_WeekWithinYear ==
    res.op = "weekOfDate" =>
        /\ 1 <= res.isoWeek
        /\ res.isoWeek <= res.weeksInYear

\* C6: on a string that does not match the pattern, parseWeekString returns
\* exactly (getISOYear(today), getISOWeek(today)), whatever the clock shows.
C6_FallbackIsIsoWeekOfToday ==
    (res.op = "parseWeekString" /\ ~res.matched) =>
        /\ res.year = getISOYear(today)
        /\ res.week = getISOWeek(today)

----------------------------------------------------------------------------
(* SpecGrid: the month grid of every month of the examined years *)

\* day 1 at local midnight and day 28 at 19:00 local time of every month
GridViewDates ==
    { NewDateLocal(y, m - 1, dh[1]) + dh[2] :
        y \in Years, m \in 1..12, dh \in {<<1, 0>>, <<28, 19>>} }

InitGrid ==
    /\ tz \in TzOffsets
    /\ today = 0
    /\ arg \in { [viewDate |-> t] : t \in GridViewDates }
    /\ res = [op |-> "none"]
    /\ Idle

BuildGrid ==
    /\ res.op = "none"
    /\ res' = [op |-> "calendarRows"] @@ buildCalendar(arg.viewDate)
    /\ UNCHANGED <<hookVars, tz, today, arg, currentDate, currentWeek, availableDates,
                   availableWeeks, isOpen, mode, viewDate, yearPickerStart, navigated>>

NextGrid == BuildGrid
SpecGrid == InitGrid /\ [][NextGrid]_vars

----------------------------------------------------------------------------
(* Properties of the month grid *)

\* the calendar date a canonical YYYY-MM-DD string names
DateNamedBy(s) ==
    [y |-> parseInt(SubSeq(s, 1, 4)), m |-> parseInt(SubSeq(s, 6, 7)),
     d |-> parseInt(SubSeq(s, 9, 10))]

DayNumberNamedBy(s) ==
    LET c == DateNamedBy(s) IN DaysFromCivil(c.y, c.m, c.d)

\* the cells of a grid, read row by row
RECURSIVE CellsOf(_)
CellsOf(rows) ==
    IF Len(rows) = 0 THEN <<>> ELSE Head(rows).days \o CellsOf(Tail(rows))

\* C7: the grid of every month has 4, 5 or 6 rows of exactly 7 cells, cell 0 of
\* every row is a Monday and cell 6 a Sunday, and the loop stops because it has
\* passed the end date, never because of its iteration cap.
C7_GridShape ==
    res.op = "calendarRows" =>
        /\ Len(res.rows) \in {4, 5, 6}
        /\ \A r \in 1..Len(res.rows) :
              /\ Len(res.rows[r].days) = 7
              /\ WeekDayOfDayNumber(DayNumberNamedBy(res.rows[r].days[1].dateString)) = 1
              /\ WeekDayOfDayNumber(DayNumberNamedBy(res.rows[r].days[7].dateString)) = 0
        /\ res.current > res.endDate
        /\ res.count < LoopCap

C7_Witness ==
    /\ res.op = "calendarRows"
    /\ Len(res.rows) = 4
    /\ getMonth(arg.viewDate) = 1

\* C8: each day of viewDate's month is in exactly one cell, and that cell has
\* isCurrentMonth = TRUE; every other cell has isCurrentMonth = FALSE; the
\* cells, read row by row, are consecutive calendar dates.
C8_GridCoversMonth ==
    res.op = "calendarRows" =>
        \A cells \in {CellsOf(res.rows)} :
        \A named \in {[k \in 1..Len(cells) |-> DateNamedBy(cells[k].dateString)]} :
        \A vd \in {LocalYMD(arg.viewDate, tz)} :
            /\ \A dd \in 1..DaysInMonth(vd.y, vd.m) :
                  Cardinality({ k \in 1..Len(cells) :
                      named[k] = [y |-> vd.y, m |-> vd.m, d |-> dd] }) = 1
            /\ \A k \in 1..Len(cells) :
                  /\ cells[k].isCurrentMonth = (named[k].y = vd.y /\ named[k].m = vd.m)
                  /\ cells[k].date = named[k].d
            /\ \A k \in 1..(Len(cells) - 1) :
                  DaysFromCivil(named[k + 1].y, named[k + 1].m, named[k + 1].d)
                      = DaysFromCivil(named[k].y, named[k].m, named[k].d) + 1

C8_Witness ==
    /\ res.op = "calendarRows"
    /\ Len(res.rows) = 6
    /\ \E k \in 1..Len(CellsOf(res.rows)) : ~CellsOf(res.rows)[k].isCurrentMonth
    /\ getDate(arg.viewDate) = 28

----------------------------------------------------------------------------
(* Properties of the navigator *)

\* C4: after Select week w, for every week w the list offers for the year
\* Y = viewDate.year, the month grid built from the new viewDate contains a row
\* whose weekString is formatWeekString(Y, w).
C4_GridShowsSelectedWeek ==
    res.op = "jumpToWeekMonth" =>
        \E rows \in {calendarRows(viewDate)} :
        \E r \in 1..Len(rows) :
            rows[r].weekString = formatWeekString(res.year, res.weekNumber)

\* C5: Select week w with viewDate.year = Y sets viewDate to day 1 of the
\* calendar month that contains getDateFromWeek(Y, w), sets mode to the month
\* view, and leaves yearPickerStart unchanged.
C5_SelectWeekEffect ==
    res.op = "jumpToWeekMonth" =>
        \A monday \in {LocalYMD(getDateFromWeek(res.year, res.weekNumber), tz)} :
            /\ LocalYMD(viewDate, tz) = [y |-> monday.y, m |-> monday.m, d |-> 1]
            /\ mode = "calendar"
            /\ yearPickerStart = arg.yearPickerStart

C5_Witness ==
    /\ res.op = "jumpToWeekMonth"
    /\ res.weekNumber = 20
    /\ getDate(getDateFromWeek(res.year, res.weekNumber)) > 1
    /\ getDate(viewDate) = 1
    /\ mode = "calendar"

\* C9: the initial state is the month view, viewDate is the date named by
\* currentDate if given, otherwise getDateFromWeek of the parsed currentWeek if
\* given, otherwise today, and yearPickerStart = viewDate.year - 4.
C9_InitialState ==
    res.op = "mounted" =>
        /\ mode = "calendar"
        /\ currentDate # NoString =>
              LocalYMD(viewDate, tz) = DateNamedBy(currentDate)
        /\ (currentDate = NoString /\ currentWeek # NoString) =>
              viewDate = getDateFromWeek(parseWeekString(currentWeek).year,
                                         parseWeekString(currentWeek).week)
        /\ (currentDate = NoString /\ currentWeek = NoString) => viewDate = today
        /\ yearPickerStart = getFullYear(viewDate) - 4

\* the civil date of the Monday getDateFromWeek computes (its UTC fields)
MondayOfWeek(year, week) == CivilFromDays(getDateFromWeek(year, week) \div HoursPerDay)

\* C10: for the same inputs the year/month/day of viewDate is the same on hosts
\* at any two UTC offsets: after initialisation it is the calendar date named by
\* currentDate, after Select week day 1 of the month of the Monday of the week.
\* (The instant computed from a well-formed currentDate or from a week does not
\* depend on the host, so another host reads LocalYMD of the same instant.)
C10_TimezoneNaive ==
    /\ (res.op = "mounted" /\ currentDate # NoString) =>
          /\ \A off \in TzOffsets : LocalYMD(viewDate, off) = LocalYMD(viewDate, tz)
          /\ LocalYMD(viewDate, tz) = DateNamedBy(currentDate)
    /\ res.op = "jumpToWeekMonth" =>
          \A monday \in {MondayOfWeek(res.year, res.weekNumber)} :
              LocalYMD(viewDate, tz) = [y |-> monday.y, m |-> monday.m, d |-> 1]

----------------------------------------------------------------------------
(* Properties of Prev, Next and the pickers *)

\* the step a press of Prev (-1) or Next (+1) makes
Direction(op) == IF op = "handleNext" THEN 1 ELSE 0 - 1

\* months counted from year 0, read on the host
MonthIndex(t) == getFullYear(t) * 12 + getMonth(t)

\* C11: in the week picker and the month picker, Prev changes the year of
\* viewDate by exactly -1 and Next by exactly +1 for every viewDate (29 February
\* included), and leaves viewDate's month, the mode and yearPickerStart unchanged.
C11_YearStepKeepsMonth ==
    (res.op \in {"handlePrev", "handleNext"}
        /\ arg.mode \in {"week-picker", "month-picker"}) =>
        /\ getFullYear(viewDate) = getFullYear(arg.viewDate) + Direction(res.op)
        /\ getMonth(viewDate) = getMonth(arg.viewDate)
        /\ mode = arg.mode
        /\ yearPickerStart = arg.yearPickerStart

RECURSIVE NetSteps(_)
NetSteps(steps) ==
    IF Len(steps) = 0 THEN 0 ELSE Direction(Head(steps)) + NetSteps(Tail(steps))

\* C12: in the month view, Next moves viewDate to day 1 of the following month
\* and Prev to day 1 of the preceding one, from every viewDate (days 29-31 and
\* the December/January roll included); so after any presses the view is on
\* day 1 of the month that lies (presses of Next - presses of Prev) months after
\* the first one: k presses of Next advance k months, Next then Prev returns.
C12_MonthSteps ==
    res.op = "pressed" =>
        /\ MonthIndex(viewDate) = MonthIndex(arg.viewDate) + NetSteps(res.steps)
        /\ getDate(viewDate) = 1
        /\ mode = "calendar"

C12_Witness ==
    /\ res.op = "pressed"
    /\ res.steps = <<"handleNext", "handleNext", "handleNext">>
    /\ getDate(arg.viewDate) = 31
    /\ getFullYear(viewDate) = getFullYear(arg.viewDate) + 1

\* C13: in the year picker Prev and Next change yearPickerStart by exactly -12
\* and +12 and leave viewDate and mode unchanged; in every other mode Prev and
\* Next leave yearPickerStart unchanged.
C13_YearPageSteps ==
    res.op \in {"handlePrev", "handleNext"} =>
        IF arg.mode = "year-picker"
        THEN /\ yearPickerStart = arg.yearPickerStart + 12 * Direction(res.op)
             /\ viewDate = arg.viewDate
             /\ mode = arg.mode
        ELSE yearPickerStart = arg.yearPickerStart

C13_Witness ==
    /\ res.op = "handlePrev"
    /\ arg.mode = "year-picker"
    /\ yearPickerStart = arg.yearPickerStart - 12

\* C14: choosing year Y in the year picker, from every viewDate, gives the
\* month picker with viewDate in year Y; choosing month index 3 next gives the
\* month view on 1 April of year Y.
C14_YearThenMonth ==
    /\ res.op = "handleYearSelect" =>
          /\ mode = "month-picker"
          /\ getFullYear(viewDate) = res.year
    /\ (res.op = "handleMonthSelect" /\ res.monthIndex = 3) =>
          /\ mode = "calendar"
          /\ LocalYMD(viewDate, tz) = [y |-> res.year, m |-> 4, d |-> 1]

C14_Witness ==
    /\ res.op = "handleMonthSelect"
    /\ res.monthIndex = 3
    /\ LocalYMD(arg.viewDate, tz) = [y |-> 2008, m |-> 2, d |-> 29]
    /\ res.year = 2009
    /\ mode = "calendar"

\* C15: choosing month index i (0..11) in the month picker, from every viewDate
\* (days 29, 30 and 31 included), gives day 1 of month i of the same year, the
\* month view, and the same yearPickerStart; the month never rolls over.
C15_SelectMonthEffect ==
    res.op = "handleMonthSelect" =>
        /\ LocalYMD(viewDate, tz) =
              [y |-> getFullYear(arg.viewDate), m |-> res.param + 1, d |-> 1]
        /\ mode = "calendar"
        /\ yearPickerStart = arg.yearPickerStart

C15_Witness ==
    /\ res.op = "handleMonthSelect"
    /\ getDate(arg.viewDate) = 31
    /\ res.param = 1
    /\ getMonth(viewDate) = 1

\* C16: a click on the year label turns the month view into the year picker and
\* the year picker into the month view; a click on the month label turns the
\* month view into the month picker and the month picker into the month view;
\* each leaves viewDate and yearPickerStart unchanged.
C16_LabelToggles ==
    /\ res.op = "ClickYearLabel" =>
          /\ arg.mode = "calendar" => mode = "year-picker"
          /\ arg.mode = "year-picker" => mode = "calendar"
          /\ viewDate = arg.viewDate
          /\ yearPickerStart = arg.yearPickerStart
    /\ res.op = "ClickMonthLabel" =>
          /\ arg.mode = "calendar" => mode = "month-picker"
          /\ arg.mode = "month-picker" => mode = "calendar"
          /\ viewDate = arg.viewDate
          /\ yearPickerStart = arg.yearPickerStart

C16_Witness ==
    /\ res.op = "ClickYearLabel"
    /\ arg.mode = "year-picker"
    /\ mode = "calendar"

\* C17: the jump to today, from every state in any of the four modes, gives
\* viewDate = today, the month view and yearPickerStart = today's year - 4.
C17_JumpToToday ==
    res.op = "handleJumpToToday" =>
        /\ viewDate = today
        /\ mode = "calendar"
        /\ yearPickerStart = LocalYMD(today, tz).y - 4

C17_Witness ==
    /\ res.op = "handleJumpToToday"
    /\ arg.mode = "year-picker"
    /\ arg.viewDate # today
    /\ arg.yearPickerStart # yearPickerStart
    /\ viewDate = today

\* C18: over every sequence of user actions, every day route navigated to
\* carries a date string of availableDates and every week route a week string
\* of availableWeeks.
C18_OnlyAvailableEmitted ==
    \A k \in 1..Len(navigated) :
        /\ navigated[k].route = "daily" => navigated[k].param \in availableDates
        /\ navigated[k].route = "weekly" => navigated[k].param \in availableWeeks

C18_Witness ==
    /\ Len(navigated) = 1
    /\ navigated[1].route = "daily"
    /\ ~isOpen

\* C19: a click on a day never changes viewDate, mode or yearPickerStart; if the
\* day's string is not in availableDates nothing changes and nothing is
\* emitted; if it is, exactly one day route with that string is emitted and the
\* navigator is closed.
C19_SelectDay ==
    res.op = "ClickDay" =>
        /\ viewDate = arg.viewDate
        /\ mode = arg.mode
        /\ yearPickerStart = arg.yearPickerStart
        /\ IF res.param.dateString \in availableDates
           THEN /\ navigated = Append(arg.navigated,
                                      [route |-> "daily", param |-> res.param.dateString])
                /\ ~isOpen
           ELSE /\ navigated = arg.navigated
                /\ isOpen = arg.isOpen

C19_Witness ==
    /\ res.op = "ClickDay"
    /\ res.param.dateString \in availableDates
    /\ Len(navigated) = 1
    /\ ~res.param.isCurrentMonth

\* C20: selecting a week whose string is not in availableWeeks does nothing,
\* both in the week column of the month grid and in the list of the week
\* picker: nothing is emitted, viewDate, mode and yearPickerStart are unchanged.
C20_UnavailableWeekIgnored ==
    (res.op \in {"ClickWeekNumber", "SelectWeek"}
        /\ res.param.weekString \notin availableWeeks) =>
        /\ navigated = arg.navigated
        /\ viewDate = arg.viewDate
        /\ mode = arg.mode
        /\ yearPickerStart = arg.yearPickerStart

\* C20 as the code has it: in the week column of the month grid such a week does
\* nothing; in the list of the week picker nothing is emitted and
\* yearPickerStart is unchanged, but the view moves to the month view.
C20_UnavailableWeekInGridIgnored ==
    /\ (res.op = "ClickWeekNumber" /\ res.param.weekString \notin availableWeeks) =>
          /\ navigated = arg.navigated
          /\ viewDate = arg.viewDate
          /\ mode = arg.mode
          /\ yearPickerStart = arg.yearPickerStart
          /\ isOpen = arg.isOpen
    /\ (res.op = "SelectWeek" /\ res.param.weekString \notin availableWeeks) =>
          /\ navigated = arg.navigated
          /\ yearPickerStart = arg.yearPickerStart
          /\ mode = "calendar"

C20_Witness ==
    /\ res.op = "ClickWeekNumber"
    /\ res.param.weekString \notin availableWeeks
    /\ \E rows \in {calendarRows(viewDate)} :
          \E r \in 1..Len(rows) : rows[r].weekString \in availableWeeks

----------------------------------------------------------------------------
(* Properties of the navigator as a whole *)

\* type CalendarMode
CalendarModes == {"calendar", "week-picker", "month-picker", "year-picker"}

\* t is an instant whose year, month and day on the host form a calendar date
IsCalendarDate(t) ==
    /\ t \in Int
    /\ \E c \in {LocalYMD(t, tz)} :
          /\ c.m \in 1..12
          /\ c.d \in 1..DaysInMonth(c.y, c.m)
          /\ DaysFromCivil(c.y, c.m, c.d) = LocalDayNumber(t, tz)

\* the year of t is one the navigator is driven through
WithinYears(t) == getFullYear(t) \in NavYears

\* C21: every transition is total: in every state of the open navigator every
\* action offered in the current mode can be taken (open/close, the toggles, the
\* week header, Prev and Next, the jump to today, every button of the displayed
\* picker or grid), and the state it produces is well formed: viewDate is a
\* calendar date, mode one of the four modes, yearPickerStart an integer; no
\* state is stuck.
C21_TransitionsTotal ==
    /\ IsCalendarDate(viewDate)
    /\ mode \in CalendarModes
    /\ yearPickerStart \in Int
    /\ isOpen \in BOOLEAN
    /\ ENABLED ToggleOpen
    /\ Ready =>
          /\ ENABLED ClickOutside
          /\ ENABLED ClickYearLabel
          /\ ENABLED handleJumpToToday
          /\ mode # "year-picker" => ENABLED ClickMonthLabel
          /\ mode = "calendar" =>
                /\ ENABLED WeekHeaderClick
                /\ \E rows \in {calendarRows(viewDate)} :
                      /\ Len(rows) >= 1
                      /\ \A r \in 1..Len(rows) :
                            /\ ENABLED ClickWeekNumberAt(rows[r])
                            /\ \A c \in 1..DaysInRow : ENABLED ClickDayAt(rows[r].days[c])
          /\ mode = "week-picker" =>
                /\ ENABLED SelectWeek
                /\ \E list \in {weekList(getFullYear(viewDate))} :
                      \A i \in 1..Len(list) :
                          IsCalendarDate(jumpTarget(list[i].weekNumber))
          /\ mode = "month-picker" => \A i \in 0..11 : ENABLED SelectMonthAt(i)
          /\ mode = "year-picker" =>
                \A i \in 0..(YearPageSize - 1) :
                    yearPickerStart + i \in NavYears => ENABLED SelectYearAt(i)
          /\ (IF mode = "year-picker"
              THEN yearPickerStart - YearPageSize \in YearPickerStarts
              ELSE WithinYears(prevDate(viewDate))) => ENABLED handlePrev
          /\ (IF mode = "year-picker"
              THEN yearPickerStart + YearPageSize \in YearPickerStarts
              ELSE WithinYears(nextDate(viewDate))) => ENABLED handleNext

C21_Witness ==
    /\ res.op = "SelectWeek"
    /\ arg.mode = "week-picker"
    /\ mode = "calendar"
    /\ viewDate # arg.viewDate

\* C22: closing the navigator discards its view state: whenever the closed
\* navigator is opened (after the toggle, a click outside, a day or a week
\* selection closed it), the mode is the month view and viewDate and
\* yearPickerStart are seeded afresh from the current selection.
C22_ReopenStartsAfresh ==
    [][(~isOpen /\ isOpen') =>
          /\ mode' = "calendar"
          /\ viewDate' = initialViewDate
          /\ yearPickerStart' = initialYearPickerStart(initialViewDate)]_vars

----------------------------------------------------------------------------
(* Properties of the week strings and of the ISO year *)

\* C23: for every year y of four digits and every week 1 <= w <= getWeeksInYear(y),
\* parseWeekString(formatWeekString(y, w)) is (y, w), and formatting the parsed
\* pair again gives the same canonical string: year, "-W", two digits of week.
C23_WeekStringRoundTrip ==
    res.op = "roundTrip" =>
        /\ res.year = arg.year
        /\ res.week = arg.week
        /\ res.again = res.weekStr
        /\ MatchesWeekPattern(res.weekStr)

\* a week of one digit has gone round
C23_Witness ==
    /\ res.op = "roundTrip"
    /\ arg.week < 10
    /\ res.weekStr[7] = "0"
    /\ res.week = arg.week

\* C24: getISOYear(d) is the calendar year of d, except that it is the previous
\* year only on 1-3 January (the week is then 52 or 53) and the following year
\* only on 29-31 December (the week is then 1).
C24_IsoYearNearCalendarYear ==
    res.op = "weekOfDate" =>
        LET y == getFullYear(arg.date)
        IN  /\ res.isoYear \in {y - 1, y, y + 1}
            /\ res.isoYear = y - 1 =>
                  /\ getMonth(arg.date) = 0
                  /\ getDate(arg.date) <= 3
                  /\ res.isoWeek \in {52, 53}
            /\ res.isoYear = y + 1 =>
                  /\ getMonth(arg.date) = 11
                  /\ getDate(arg.date) >= 29
                  /\ res.isoWeek = 1

\* 3 January in week 53 of the year before, and 29 December in week 1 of the
\* year after, are both among the dates examined
C24_Witness ==
    /\ res.op = "weekOfDate"
    /\ \/ /\ getMonth(arg.date) = 0 /\ getDate(arg.date) = 3
          /\ res.isoYear = getFullYear(arg.date) - 1 /\ res.isoWeek = 53
       \/ /\ getMonth(arg.date) = 11 /\ getDate(arg.date) = 29
          /\ res.isoYear = getFullYear(arg.date) + 1 /\ res.isoWeek = 1

\* C25: getWeeksInYear(y) is 52 or 53 for every year y, and it is 53 for 2020,
\* 52 for 2021 and 53 for 2015.
C25_WeeksInYearValues ==
    res.op = "getWeeksInYear" =>
        /\ res.weeks \in {52, 53}
        /\ arg.year = 2020 => res.weeks = 53
        /\ arg.year = 2021 => res.weeks = 52
        /\ arg.year = 2015 => res.weeks = 53

C25_Witness ==
    /\ res.op = "getWeeksInYear"
    /\ arg.year = 2020
    /\ res.weeks = 53

\* C26: 1 January 2024, a Monday, is in week 1 of ISO year 2024; 1 January 2023,
\* a Sunday, is in week 52 of ISO year 2022.
C26_FirstOfJanuary ==
    res.op = "weekOfDate" =>
        /\ arg.date = NewDateLocal(2024, 0, 1) =>
              /\ getDay(arg.date) = 1
              /\ res.isoWeek = 1
              /\ res.isoYear = 2024
        /\ arg.date = NewDateLocal(2023, 0, 1) =>
              /\ getDay(arg.date) = 0
              /\ res.isoYear = 2022
              /\ res.isoWeek = 52

C26_Witness ==
    /\ res.op = "weekOfDate"
    /\ arg.date = NewDateLocal(2023, 0, 1)
    /\ res.isoYear = 2022
    /\ res.isoWeek = 52

----------------------------------------------------------------------------
(* The weeks of the month grid *)

\* local midnight of the calendar date a canonical YYYY-MM-DD string names
MidnightNamedBy(s) ==
    LET c == DateNamedBy(s) IN NewDateLocal(c.y, c.m - 1, c.d)

\* C27: in every row of every month grid the row's (weekYear, weekNumber),
\* computed from the row's Monday only, is (getISOYear(c), getISOWeek(c)) for
\* each of the 7 cells c of the row; consecutive rows carry consecutive ISO
\* weeks; the weekStrings of one grid are pairwise distinct.
C27_RowWeekIsWeekOfItsCells ==
    res.op = "calendarRows" =>
        /\ \A r \in 1..Len(res.rows) :
              /\ Len(res.rows[r].days) = DaysInRow
              /\ \A c \in 1..DaysInRow :
                 \A t \in {MidnightNamedBy(res.rows[r].days[c].dateString)} :
                    /\ res.rows[r].weekYear = getISOYear(t)
                    /\ res.rows[r].weekNumber = getISOWeek(t)
        /\ \A r \in 1..(Len(res.rows) - 1) :
              \/ /\ res.rows[r + 1].weekYear = res.rows[r].weekYear
                 /\ res.rows[r + 1].weekNumber = res.rows[r].weekNumber + 1
              \/ /\ res.rows[r + 1].weekYear = res.rows[r].weekYear + 1
                 /\ res.rows[r + 1].weekNumber = 1
                 /\ res.rows[r].weekNumber \in {52, 53}
        /\ \A r, q \in 1..Len(res.rows) :
              r # q => res.rows[r].weekString # res.rows[q].weekString

\* a grid of January whose first row is week 53 of the year before
C27_Witness ==
    /\ res.op = "calendarRows"
    /\ getMonth(arg.viewDate) = 0
    /\ res.rows[1].weekNumber = 53
    /\ res.rows[1].weekYear = getFullYear(arg.viewDate) - 1
    /\ res.rows[2].weekNumber = 1

----------------------------------------------------------------------------
(* Properties of the modes *)

\* C28: whenever the year button takes the navigator into the year picker,
\* whatever was done before, the page of twelve years shown contains the year
\* of viewDate: yearPickerStart <= year <= yearPickerStart + 11.
C28_YearPageHoldsViewYear ==
    [][(isOpen /\ mode # "year-picker" /\ mode' = "year-picker") =>
          /\ yearPickerStart' <= getFullYear(viewDate')
          /\ getFullYear(viewDate') <= yearPickerStart' + YearPageSize - 1]_vars

\* C29: the week picker is entered only by the week header of the month view:
\* every step that takes the navigator into the week picker from another mode
\* starts in the month view, and it leaves viewDate and yearPickerStart as
\* they were.
C29_WeekPickerOnlyFromMonthView ==
    [][(mode # "week-picker" /\ mode' = "week-picker") =>
          /\ mode = "calendar"
          /\ isOpen
          /\ viewDate' = viewDate
          /\ yearPickerStart' = yearPickerStart]_vars

\* the week picker, entered after the view and the year page have been moved
C29_Witness ==
    /\ isOpen
    /\ mode = "week-picker"
    /\ viewDate # initialViewDate
    /\ yearPickerStart # initialYearPickerStart(initialViewDate)

----------------------------------------------------------------------------
(* Properties of the data hooks *)

\* C30: when the argument of useDailyData (or useWeeklyData) changes from A to B
\* while the fetch for A is in flight, then in whatever order the responses
\* come, once all have come the hook holds what the request for B gave, B's
\* report or B's error, never A's; and loading is false only when the request
\* for the current argument has completed.
C30_LatestRequestWins ==
    /\ requests = {} =>
          /\ settled = requested
          /\ (data # Null /\ requested # "latest") => data = Report(hook, requested)
    /\ ~loading => \A r \in requests : r.id # issued

====
